---- MODULE Spec2Model ----
(***************************************************************************)
(* ECDSA over secp256k1 with Ethereum-style recoverable signatures         *)
(* (k256/src/ecdsa/{signer,verifier,recoverable}.rs).                      *)
(*                                                                         *)
(* The protocol code is translated operation by operation.  The curve      *)
(* arithmetic it calls (k256::arithmetic) is replaced by a curve of the    *)
(* same shape that a model checker can enumerate: a short Weierstrass      *)
(* curve y^2 = x^3 + b with a = 0 over a prime field F_p, p = 3 (mod 4),   *)
(* whose group has prime order n < p and cofactor 1, exactly as for        *)
(* secp256k1.  Because n < p, an x-coordinate may be >= n and is then      *)
(* changed by its reduction into the scalar field, and x = n reduces to 0. *)
(*                                                                         *)
(* A fixed-width big-endian field of an encoding is identified with the    *)
(* integer it denotes; a field may denote any integer in 0..MaxEnc, also   *)
(* one that is not below the order.                                        *)
(***************************************************************************)
EXTENDS Integers, FiniteSets, Sequences, TLC

\* ------------------------------------------------------------ bounds
\* Largest integer a scalar-sized field of an encoding may denote.
MaxEnc == 14
\* Largest integer a message digest may denote (it is reduced modulo n).
MaxDigest == 13
\* Largest value of the trailing recovery-id byte of a parsed buffer.
MaxTag == 3
\* Parsed buffers are SIZE - LenSlack .. SIZE + LenSlack bytes long.
LenSlack == 2

\* ------------------------------------------------- curve parameters
\* Field modulus p, curve constant b and group order n of the stand-in curve.
FieldModulus == 19
CurveB == 14
Order == 13

\* Size of an Ethereum-style recoverable signature in bytes.
SIZE == 65

\* --------------------------------------------------------- results
\* Every fallible operation returns Ok(value) or Err(Error::new()); the
\* Error type is one opaque value.  Panic is an unwrap()/expect() on None.
None == [some |-> FALSE]
Some(v) == [some |-> TRUE, val |-> v]
Ok(v) == [outcome |-> "Ok", val |-> v]
Err == [outcome |-> "Err"]
Panic == [outcome |-> "Panic"]
IsOk(res) == res.outcome = "Ok"

\* ------------------------------------------------ field arithmetic
RECURSIVE PowMod(_, _, _)
PowMod(a, e, m) == IF e = 0 THEN 1 % m ELSE (a * PowMod(a, e - 1, m)) % m

\* Inverse in F_p (Fermat), tabulated.
FieldInv == [a \in 1..(FieldModulus - 1) |-> PowMod(a, FieldModulus - 2, FieldModulus)]

\* --------------------------------------------------- curve points
\* An affine point has coordinates; the point at infinity has none and is
\* only a ProjectivePoint value.
Identity == [inf |-> TRUE, x |-> 0, y |-> 0]
Affine(x, y) == [inf |-> FALSE, x |-> x, y |-> y]

OnCurve(x, y) == (y * y) % FieldModulus = (x * x * x + CurveB) % FieldModulus

AffinePoints ==
    {pt \in [inf : {FALSE}, x : 0..(FieldModulus - 1), y : 0..(FieldModulus - 1)] :
        OnCurve(pt.x, pt.y)}

ProjectivePoints == AffinePoints \cup {Identity}

\* Group law of a short Weierstrass curve with a = 0.
PointAdd(A, B) ==
    IF A.inf THEN B
    ELSE IF B.inf THEN A
    ELSE IF A.x = B.x /\ (A.y + B.y) % FieldModulus = 0 THEN Identity
    ELSE LET lambda == IF A.x = B.x
                       THEN (3 * A.x * A.x * FieldInv[(2 * A.y) % FieldModulus]) % FieldModulus
                       ELSE ((B.y - A.y) * FieldInv[(B.x - A.x) % FieldModulus]) % FieldModulus
             x3 == (lambda * lambda - A.x - B.x) % FieldModulus
             y3 == (lambda * (A.x - x3) - A.y) % FieldModulus
         IN  Affine(x3, y3)

AddTab == [A \in ProjectivePoints, B \in ProjectivePoints |-> PointAdd(A, B)]

RECURSIVE PointMulRec(_, _)
PointMulRec(A, k) == IF k = 0 THEN Identity ELSE AddTab[A, PointMulRec(A, k - 1)]

MulTab == [A \in ProjectivePoints, k \in 0..(Order - 1) |-> PointMulRec(A, k)]

\* ProjectivePoint * Scalar
PointMul(A, k) == MulTab[A, k]

\* ProjectivePoint::generator(): the on-curve point with the least (x, y).
Generator ==
    LET gx == CHOOSE x \in 0..(FieldModulus - 1) :
                  /\ \E pt \in AffinePoints : pt.x = x
                  /\ \A pt \in AffinePoints : pt.x >= x
        gy == CHOOSE y \in 0..(FieldModulus - 1) :
                  /\ Affine(gx, y) \in AffinePoints
                  /\ \A pt \in AffinePoints : pt.x = gx => pt.y >= y
    IN  Affine(gx, gy)

\* ProjectivePoint::to_affine(): None for the point at infinity.
to_affine(A) == IF A.inf THEN None ELSE Some(A)

\* ------------------------------------------------ scalar arithmetic
\* Scalar::invert(): None for zero.
ScalarInvTab == [a \in 1..(Order - 1) |-> PowMod(a, Order - 2, Order)]
invert(a) == IF a % Order = 0 THEN None ELSE Some(ScalarInvTab[a % Order])

\* Scalar::is_high(): greater than n/2.
is_high(s) == 2 * s > Order

\* Scalar::from_bytes_reduced(): the field's integer reduced modulo n.
from_bytes_reduced(v) == v % Order

\* Scalar::from_digest(): the digest's integer reduced modulo n.
from_digest(digest) == digest % Order

\* Scalar::from_bytes(): None unless the integer is below n.
Scalar_from_bytes(v) == IF v < Order THEN Some(v) ELSE None

\* NonZeroScalar::from_bytes(): None unless the integer is in 1..n-1.
NonZeroScalar_from_bytes(v) == IF v >= 1 /\ v < Order THEN Some(v) ELSE None

\* AffinePoint::decompress(x_bytes, y_is_odd): the point with that
\* x-coordinate and y-parity, None when x^3 + b is not a square.
decompress(x, y_is_odd) ==
    LET cands == {pt \in AffinePoints : pt.x = x /\ (pt.y % 2 = 1) = y_is_odd}
    IN  IF cands = {} THEN None ELSE Some(CHOOSE pt \in cands : TRUE)

\* EncodedPoint::from(&VerifyKey): the compressed SEC1 encoding.
EncodedPoint_from(pt) == [tag |-> 2 + (pt.y % 2), x |-> pt.x]

\* ------------------------------------------------------ signatures
\* ecdsa::Signature: 64 bytes r || s, not validated by its constructor.
from_scalars(r, s) == [r |-> r, s |-> s]

\* ecdsa::Signature::normalize_s(): Err when s is no scalar; otherwise the
\* signature with s replaced by n - s when s is high, and whether it was.
normalize_s(signature) ==
    LET s_option == Scalar_from_bytes(signature.s)
    IN  IF ~s_option.some THEN Err
        ELSE IF is_high(s_option.val)
             THEN Ok([sig |-> [signature EXCEPT !.s = Order - s_option.val], was_high |-> TRUE])
             ELSE Ok([sig |-> signature, was_high |-> FALSE])

\* k256::ecdsa::check_scalars(): both r and s are nonzero scalars below n.
check_scalars(signature) ==
    IF NonZeroScalar_from_bytes(signature.r).some /\ NonZeroScalar_from_bytes(signature.s).some
    THEN Ok(TRUE) ELSE Err

\* recoverable::Id::new
\* Faulty variant of Id::new: every byte is taken as an id.
Id_new_AcceptsAll(byte) == Ok(byte)
Id_new(byte) == IF byte \in {0, 1} THEN Ok(byte) ELSE Err

\* recoverable::Signature::new: 64 signature bytes followed by the id byte.
\* Faulty variant of Signature::new: check_scalars is not called.
Signature_new_Unchecked(signature, recovery_id) ==
    Ok([r |-> signature.r, s |-> signature.s, v |-> recovery_id])
Signature_new(signature, recovery_id) ==
    IF ~IsOk(check_scalars(signature)) THEN Err
    ELSE Ok([r |-> signature.r, s |-> signature.s, v |-> recovery_id])

\* recoverable::Signature::recovery_id: expect() on Id::try_from(bytes[64]).
recovery_id(sig) == IF IsOk(Id_new(sig.v)) THEN Ok(sig.v) ELSE Panic

\* recoverable::Signature::r and ::s
sig_r(sig) == NonZeroScalar_from_bytes(sig.r)
sig_s(sig) == NonZeroScalar_from_bytes(sig.s)

\* impl From<recoverable::Signature> for ecdsa::Signature: the first 64 bytes.
Signature_from(sig) == [r |-> sig.r, s |-> sig.s]

\* impl TryFrom<&[u8]> for recoverable::Signature.  A buffer is its length
\* and, when it is SIZE bytes long, the integers of its three fields.
try_from(bytes) ==
    IF bytes.len # SIZE THEN Err
    ELSE LET signature == from_scalars(bytes.r, bytes.s)
             id == Id_new(bytes.tag)
         IN  IF ~IsOk(id) THEN Err ELSE Signature_new(signature, id.val)

\* ---------------------------------------------------------- signer
\* impl RecoverableSignPrimitive for Scalar (self = d).
\* Faulty variant of signing: the id is is_r_odd, not corrected by is_s_high.
try_sign_recoverable_prehashed_NoXor(d, k, z) ==
    LET k_inverse == invert(k)
    IN  IF ~k_inverse.some \/ k = 0 THEN Err
        ELSE LET R == to_affine(PointMul(Generator, k))
             IN  IF ~R.some THEN Panic
                 ELSE LET r == from_bytes_reduced(R.val.x)
                          s == (k_inverse.val * (z + r * d)) % Order
                      IN  IF s = 0 THEN Err
                          ELSE LET is_r_odd == R.val.y % 2 = 1
                                   norm == normalize_s(from_scalars(r, s))
                               IN  IF ~IsOk(norm) THEN Err
                                   ELSE Signature_new(norm.val.sig, IF is_r_odd THEN 1 ELSE 0)
\* Faulty variant of signing: s is not normalized to its low form.
try_sign_recoverable_prehashed_NoNormalize(d, k, z) ==
    LET k_inverse == invert(k)
    IN  IF ~k_inverse.some \/ k = 0 THEN Err
        ELSE LET R == to_affine(PointMul(Generator, k))
             IN  IF ~R.some THEN Panic
                 ELSE LET r == from_bytes_reduced(R.val.x)
                          s == (k_inverse.val * (z + r * d)) % Order
                      IN  IF s = 0 THEN Err
                          ELSE Signature_new(from_scalars(r, s), IF R.val.y % 2 = 1 THEN 1 ELSE 0)
try_sign_recoverable_prehashed(d, k, z) ==
    LET k_inverse == invert(k)
    IN  IF ~k_inverse.some \/ k = 0 THEN Err
        ELSE LET R == to_affine(PointMul(Generator, k))
             IN  IF ~R.some THEN Panic
                 ELSE LET r == from_bytes_reduced(R.val.x)
                          s == (k_inverse.val * (z + r * d)) % Order
                      IN  IF s = 0 THEN Err
                          ELSE LET is_r_odd == R.val.y % 2 = 1
                                   norm == normalize_s(from_scalars(r, s))
                               IN  IF ~IsOk(norm) THEN Err
                                   ELSE LET is_s_high == norm.val.was_high
                                            id == IF is_r_odd # is_s_high THEN 1 ELSE 0
                                        IN  Signature_new(norm.val.sig, id)

\* -------------------------------------------------------- verifier
\* impl VerifyPrimitive for AffinePoint (self = Q).
\* Faulty variant of verification: a high s is normalized, not rejected.
verify_prehashed_Normalizing(Q, z, signature) ==
    LET maybe_r == NonZeroScalar_from_bytes(signature.r)
        maybe_s == NonZeroScalar_from_bytes(signature.s)
    IN  IF ~(maybe_r.some /\ maybe_s.some) THEN Err
        ELSE LET r == maybe_r.val
                 s == IF is_high(maybe_s.val) THEN Order - maybe_s.val ELSE maybe_s.val
                 s_inv == invert(s)
             IN  IF ~s_inv.some THEN Panic
                 ELSE LET u1 == (z * s_inv.val) % Order
                          u2 == (r * s_inv.val) % Order
                          pt == to_affine(AddTab[PointMul(Generator, u1), PointMul(Q, u2)])
                      IN  IF ~pt.some THEN Panic
                          ELSE IF from_bytes_reduced(pt.val.x) = r THEN Ok(TRUE) ELSE Err
verify_prehashed(Q, z, signature) ==
    LET maybe_r == NonZeroScalar_from_bytes(signature.r)
        maybe_s == NonZeroScalar_from_bytes(signature.s)
    IN  IF ~(maybe_r.some /\ maybe_s.some) THEN Err
        ELSE LET r == maybe_r.val
                 s == maybe_s.val
             IN  IF is_high(s) THEN Err
                 ELSE LET s_inv == invert(s)
                      IN  IF ~s_inv.some THEN Panic
                          ELSE LET u1 == (z * s_inv.val) % Order
                                   u2 == (r * s_inv.val) % Order
                                   pt == to_affine(AddTab[PointMul(Generator, u1), PointMul(Q, u2)])
                               IN  IF ~pt.some THEN Panic
                                   ELSE IF from_bytes_reduced(pt.val.x) = r THEN Ok(TRUE) ELSE Err

\* ecdsa_core::Verifier::verify_digest for ecdsa::Signature.
verify_digest(Q, digest, signature) == verify_prehashed(Q, from_digest(digest), signature)

\* impl DigestVerifier<D, recoverable::Signature> for Verifier.
verify_digest_recoverable(Q, digest, sig) == verify_digest(Q, digest, Signature_from(sig))

\* -------------------------------------------------------- recovery
\* recoverable::Signature::recover_verify_key_from_digest
\* Faulty variant of recovery: u1 is r^-1 z, not its negation.
recover_verify_key_from_digest_WrongSign(sig, msg_prehash) ==
    LET r == sig_r(sig)
        s == sig_s(sig)
        id == recovery_id(sig)
    IN  IF ~r.some \/ ~s.some \/ ~IsOk(id) THEN Panic
        ELSE LET z == from_digest(msg_prehash)
                 R == decompress(r.val, id.val = 1)
             IN  IF ~R.some THEN Err
                 ELSE LET r_inv == invert(r.val)
                      IN  IF ~r_inv.some THEN Panic
                          ELSE LET u1 == (r_inv.val * z) % Order
                                   u2 == (r_inv.val * s.val) % Order
                                   pk == to_affine(AddTab[PointMul(Generator, u1),
                                                          PointMul(R.val, u2)])
                               IN  IF pk.some THEN Ok(pk.val) ELSE Err
recover_verify_key_from_digest(sig, msg_prehash) ==
    LET r == sig_r(sig)
        s == sig_s(sig)
        id == recovery_id(sig)
    IN  IF ~r.some \/ ~s.some \/ ~IsOk(id) THEN Panic
        ELSE LET z == from_digest(msg_prehash)
                 R == decompress(r.val, id.val = 1)
             IN  IF ~R.some THEN Err
                 ELSE LET r_inv == invert(r.val)
                      IN  IF ~r_inv.some THEN Panic
                          ELSE LET u1 == (Order - ((r_inv.val * z) % Order)) % Order
                                   u2 == (r_inv.val * s.val) % Order
                                   pk == to_affine(AddTab[PointMul(Generator, u1),
                                                          PointMul(R.val, u2)])
                               IN  IF pk.some THEN Ok(pk.val) ELSE Err

\* One turn of the loop of from_trial_recovery; None when the id is passed over.
trial_step(public_key, digest, signature, id) ==
    LET recoverable_signature == Signature_new(signature, id)
    IN  IF ~IsOk(recoverable_signature) THEN None
        ELSE LET recovered_key == recover_verify_key_from_digest(recoverable_signature.val, digest)
             IN  IF recovered_key.outcome = "Panic" THEN Some(Panic)
                 ELSE IF IsOk(recovered_key) /\ public_key = EncodedPoint_from(recovered_key.val)
                      THEN Some(recoverable_signature)
                      ELSE None

\* recoverable::Signature::from_trial_recovery; digest is the hash of msg.
\* Faulty variant of trial recovery: s is not normalized first.
from_trial_recovery_NoNormalize(public_key, digest, signature) ==
    LET step0 == trial_step(public_key, digest, signature, 0)
        step1 == trial_step(public_key, digest, signature, 1)
    IN  IF ~Scalar_from_bytes(signature.s).some THEN Err
        ELSE IF step0.some THEN step0.val
        ELSE IF step1.some THEN step1.val
        ELSE Err
from_trial_recovery(public_key, digest, signature) ==
    LET norm == normalize_s(signature)
    IN  IF ~IsOk(norm) THEN Err
        ELSE LET step0 == trial_step(public_key, digest, norm.val.sig, 0)
                 step1 == trial_step(public_key, digest, norm.val.sig, 1)
             IN  IF step0.some THEN step0.val
                 ELSE IF step1.some THEN step1.val
                 ELSE Err

\* ------------------------------------------------------ input sets
Scalars == 0..(Order - 1)
EncVals == 0..MaxEnc
Digests == 0..MaxDigest
Buffers == [len : (SIZE - LenSlack)..(SIZE + LenSlack), r : EncVals, s : EncVals, tag : 0..MaxTag]
EncodedPoints == {EncodedPoint_from(pt) : pt \in AffinePoints}

NoSig == [r |-> 0, s |-> 0, v |-> 0]
NoSignature == [r |-> 0, s |-> 0]
NoBuf == [len |-> 0, r |-> 0, s |-> 0, tag |-> 0]
NoKey == [tag |-> 0, x |-> 0]

\* ------------------------------------------------------------ state
VARIABLES
    op,          \* the operation that ran last
    origin,      \* where the signature in hand came from: signed, parsed or raw
    d,           \* the signer's secret scalar
    k,           \* the ephemeral scalar the nonce derivation gave
    digest,      \* the message digest
    buf,         \* the buffer handed to the parser
    rsig,        \* the recoverable signature in hand
    signature,   \* the plain signature handed to verify / trial recovery
    Q,           \* the verifier's public point, or the recovered one
    public_key,  \* the encoded public key handed to trial recovery
    res          \* what the last operation returned

vars == <<op, origin, d, k, digest, buf, rsig, signature, Q, public_key, res>>

Init ==
    /\ op = "start"
    /\ origin = "none"
    /\ d = 0
    /\ k = 0
    /\ digest = 0
    /\ buf = NoBuf
    /\ rsig = NoSig
    /\ signature = NoSignature
    /\ Q = Identity
    /\ public_key = NoKey
    /\ res = Err

\* Signer::try_sign_digest for recoverable::Signature.  The nonce derivation
\* is opaque: any scalar may come out of it.
SignRecoverable ==
    /\ op = "start"
    /\ \E dd \in Scalars, kk \in Scalars, dg \in Digests :
         LET out == try_sign_recoverable_prehashed(dd, kk, from_digest(dg))
         IN  /\ d' = dd
             /\ k' = kk
             /\ digest' = dg
             /\ res' = out
             /\ rsig' = IF IsOk(out) THEN out.val ELSE NoSig
    /\ op' = "sign"
    /\ origin' = "signed"
    /\ UNCHANGED <<buf, signature, Q, public_key>>

\* recoverable::Signature::try_from(bytes)
Parse ==
    /\ op = "start"
    /\ \E bytes \in Buffers :
         LET out == try_from(bytes)
         IN  /\ buf' = bytes
             /\ res' = out
             /\ rsig' = IF IsOk(out) THEN out.val ELSE NoSig
    /\ op' = "parse"
    /\ origin' = "parsed"
    /\ UNCHANGED <<d, k, digest, signature, Q, public_key>>

\* recover_verify_key_from_digest on the signature in hand; a signed
\* signature is recovered with the digest that was signed.
Recover ==
    /\ op \in {"sign", "parse"}
    /\ IsOk(res)
    /\ \E dg \in Digests :
         /\ origin = "signed" => dg = digest
         /\ digest' = dg
         /\ res' = recover_verify_key_from_digest(rsig, dg)
    /\ Q' = IF IsOk(res') THEN res'.val ELSE Identity
    /\ op' = "recover"
    /\ UNCHANGED <<origin, d, k, buf, rsig, signature, public_key>>

\* Verifier::verify_digest(digest, &recoverable::Signature) with the key
\* that was just recovered.
VerifyRecovered ==
    /\ op = "recover"
    /\ IsOk(res)
    /\ res' = verify_digest_recoverable(Q, digest, rsig)
    /\ signature' = Signature_from(rsig)
    /\ op' = "verify_recovered"
    /\ UNCHANGED <<origin, d, k, digest, buf, rsig, Q, public_key>>

\* Verifier::verify_digest(digest, &recoverable::Signature) of a signature
\* just signed, with any public point.
Verify ==
    /\ op = "sign"
    /\ IsOk(res)
    /\ \E pt \in AffinePoints :
         /\ Q' = pt
         /\ res' = verify_digest_recoverable(pt, digest, rsig)
    /\ signature' = Signature_from(rsig)
    /\ op' = "verify"
    /\ UNCHANGED <<origin, d, k, digest, buf, rsig, public_key>>

\* Verifier::verify_digest(digest, &Signature) of any plain signature.
VerifyRaw ==
    /\ op = "start"
    /\ \E pt \in AffinePoints, dg \in Digests, r \in EncVals, s \in EncVals :
         /\ Q' = pt
         /\ digest' = dg
         /\ signature' = from_scalars(r, s)
         /\ res' = verify_digest(pt, dg, from_scalars(r, s))
    /\ op' = "verify"
    /\ origin' = "raw"
    /\ UNCHANGED <<d, k, buf, rsig, public_key>>

\* from_trial_recovery for the plain part of a signature just signed.
Trial ==
    /\ op = "sign"
    /\ IsOk(res)
    /\ \E pk \in EncodedPoints :
         /\ public_key' = pk
         /\ res' = from_trial_recovery(pk, digest, Signature_from(rsig))
    /\ signature' = Signature_from(rsig)
    /\ op' = "trial"
    /\ UNCHANGED <<origin, d, k, digest, buf, rsig, Q>>

\* from_trial_recovery for any plain signature.
TrialRaw ==
    /\ op = "start"
    /\ \E pk \in EncodedPoints, dg \in Digests, r \in EncVals, s \in EncVals :
         /\ public_key' = pk
         /\ digest' = dg
         /\ signature' = from_scalars(r, s)
         /\ res' = from_trial_recovery(pk, dg, from_scalars(r, s))
    /\ op' = "trial"
    /\ origin' = "raw"
    /\ UNCHANGED <<d, k, buf, rsig, Q>>

Next ==
    \/ SignRecoverable
    \/ Parse
    \/ Recover
    \/ VerifyRecovered
    \/ Verify
    \/ VerifyRaw
    \/ Trial
    \/ TrialRaw

Spec == Init /\ [][Next]_vars

\* ------------------------------------------------- claim vocabulary
\* The public point of secret scalar dd.
PublicPoint(dd) == PointMul(Generator, dd)
ValidScalar(v) == v \in 1..(Order - 1)
\* The ephemeral point, r and the s of the signing equation before it is
\* normalized, for the signing inputs in the state.
EphemeralPoint == PointMul(Generator, k)
EphemeralR == EphemeralPoint.x % Order
RawS == (ScalarInvTab[k] * (from_digest(digest) + EphemeralR * d)) % Order
OtherId(sig) == [sig EXCEPT !.v = 1 - sig.v]

\* C1: for every nonzero secret scalar and digest, recovering the public key
\* from a signature that sign_recoverable returned, with the digest that was
\* signed, succeeds and yields d*G.
C1_SignThenRecover ==
    (op = "recover" /\ origin = "signed" /\ d # 0) => res = Ok(PublicPoint(d))

\* C2: for every nonzero secret scalar and digest, verify with d*G accepts
\* the (r, s) of the signature that signing returned for that digest.
C2_SignThenVerify ==
    (op = "verify" /\ origin = "signed" /\ d # 0 /\ Q = PublicPoint(d)) => res = Ok(TRUE)

\* C2 witness: a signature whose ephemeral x-coordinate was not below n, and
\* whose s was normalized, verified with the signer's point.
C2_Witness ==
    /\ op = "verify" /\ origin = "signed" /\ d # 0 /\ Q = PublicPoint(d)
    /\ EphemeralPoint.x >= Order
    /\ is_high(RawS)
    /\ res = Ok(TRUE)

\* C3: verify never accepts a signature with high s (s > n/2), and whenever
\* it accepts (r, s) it rejects (r, n - s) for the same point and digest.
C3_HighSRejected ==
    (op \in {"verify", "verify_recovered"} /\ IsOk(res)) =>
        /\ ~is_high(signature.s)
        /\ verify_digest(Q, digest, [signature EXCEPT !.s = Order - signature.s]) = Err

\* C3 witness: a caller-supplied signature that verify accepted.
C3_Witness ==
    /\ op = "verify" /\ origin = "raw" /\ res = Ok(TRUE)
    /\ is_high(Order - signature.s)

\* C4: for r, s nonzero scalars with s low, verify returns to its caller:
\* Ok exactly when u1*G + u2*Q has an x-coordinate that reduces to r, and an
\* error otherwise, also when u1*G + u2*Q is the point at infinity.
C4_VerifyReturns ==
    (/\ op = "verify" /\ origin = "raw"
     /\ ValidScalar(signature.r) /\ ValidScalar(signature.s)
     /\ ~is_high(signature.s)) =>
        LET s_inv == ScalarInvTab[signature.s]
            u1 == (from_digest(digest) * s_inv) % Order
            u2 == (signature.r * s_inv) % Order
            pt == AddTab[PointMul(Generator, u1), PointMul(Q, u2)]
        IN  res = IF ~pt.inf /\ pt.x % Order = signature.r THEN Ok(TRUE) ELSE Err

\* What trial recovery is to return: s normalized, then the first id of 0, 1
\* whose recovered key encodes to the expected key, an error if there is none.
TrialExpected ==
    LET ns == IF signature.s < Order /\ is_high(signature.s)
              THEN Order - signature.s ELSE signature.s
        cand(i) == [r |-> signature.r, s |-> ns, v |-> i]
        matches(i) ==
            /\ ValidScalar(signature.r) /\ ValidScalar(signature.s)
            /\ LET rec == recover_verify_key_from_digest(cand(i), digest)
               IN  IsOk(rec) /\ EncodedPoint_from(rec.val) = public_key
    IN  IF matches(0) THEN Ok(cand(0))
        ELSE IF matches(1) THEN Ok(cand(1))
        ELSE Err

\* C5 (amended): trial recovery normalizes s, then returns the recoverable
\* signature with the smallest id in {0, 1} whose recovered key encodes to
\* the expected key; it fails exactly when neither id recovers that key.
C5_TrialRecovery == op = "trial" => res = TrialExpected

\* C5 witness: a high-s signature for which id 0 does not and id 1 does
\* recover the expected key.
C5_Witness ==
    /\ op = "trial" /\ origin = "raw"
    /\ is_high(signature.s) /\ signature.s < Order
    /\ IsOk(res) /\ res.val.v = 1 /\ res.val.s = Order - signature.s

\* C5 as stated: the above, and trial recovery fails for every public key
\* other than the signer's.
C5_Original ==
    /\ C5_TrialRecovery
    /\ (op = "trial" /\ origin = "signed" /\ d # 0
          /\ public_key # EncodedPoint_from(PublicPoint(d))) => res = Err

C7_TrialAfterSign ==
    (/\ op = "trial" /\ origin = "signed" /\ d # 0
     /\ public_key = EncodedPoint_from(PublicPoint(d))) =>
        /\ res = Ok(rsig)
        /\ ~(/\ recover_verify_key_from_digest(rsig, digest) = Ok(PublicPoint(d))
             /\ recover_verify_key_from_digest(OtherId(rsig), digest) = Ok(PublicPoint(d)))

\* C8: in every signature sign_recoverable returns, the recovery id is
\* (y of k*G is odd) XOR (k^-1 (z + r d) is high), and the stored s is the
\* low one of k^-1 (z + r d) and its negation.
C8_RecoveryIdBit ==
    (op = "sign" /\ IsOk(res)) =>
        LET is_r_odd == EphemeralPoint.y % 2 = 1
            is_s_high == 2 * RawS > Order
        IN  /\ res.val.v = (IF is_r_odd # is_s_high THEN 1 ELSE 0)
            /\ res.val.r = EphemeralR
            /\ res.val.s = (IF is_s_high THEN Order - RawS ELSE RawS)
            /\ ~is_high(res.val.s)

\* C8 witness: R has odd y and s was normalized, so the id is 0.
C8_Witness ==
    /\ op = "sign" /\ IsOk(res)
    /\ EphemeralPoint.y % 2 = 1
    /\ 2 * RawS > Order
    /\ res.val.v = 0

\* C9: sign_recoverable never aborts; it returns an error when k is zero,
\* when the x-coordinate of k*G reduces to r = 0 or when s = 0; and whatever
\* it returns has r and s nonzero, s low and a recovery id of 0 or 1.
C9_SignSafe ==
    op = "sign" =>
        /\ res # Panic
        /\ k = 0 => res = Err
        /\ (k # 0 /\ (EphemeralR = 0 \/ RawS = 0)) => res = Err
        /\ IsOk(res) => /\ ValidScalar(res.val.r) /\ ValidScalar(res.val.s)
                        /\ ~is_high(res.val.s)
                        /\ res.val.v \in {0, 1}

\* C9 witness: a nonzero k whose point has x = n, so that r = 0 although
\* s is not, and signing failed.
C9_Witness ==
    /\ op = "sign" /\ k # 0
    /\ EphemeralPoint.x = Order
    /\ RawS # 0
    /\ res = Err

\* C10: when recovery returns a point for a recoverable signature with low
\* s, verify with that point, the same digest and (r, s) succeeds; and the
\* outcome of verifying a recoverable signature is that of verifying its
\* (r, s), whatever its recovery id.
C10_RecoverVerifyAgree ==
    op = "verify_recovered" =>
        /\ ~is_high(rsig.s) => res = Ok(TRUE)
        /\ res = verify_digest(Q, digest, from_scalars(rsig.r, rsig.s))
        /\ res = verify_digest_recoverable(Q, digest, OtherId(rsig))

\* C10 witness: a parsed low-s signature with id 1 whose recovered key
\* verified it.
C10_Witness ==
    /\ op = "verify_recovered" /\ origin = "parsed"
    /\ rsig.v = 1 /\ ~is_high(rsig.s)
    /\ from_digest(digest) # 0
    /\ res = Ok(TRUE)

TypeOK ==
    /\ res.outcome \in {"Ok", "Err", "Panic"}
    /\ Cardinality(ProjectivePoints) = Order
====
